---- MODULE Spec2Model ----
\* Node Volume Publication protocol of the direct-csi node server
\* (pkg/node/node.go).  NodePublishVolume takes no lock: every read of the
\* volume record and the final Bind/Mount are separate steps of a call, and
\* calls of different RPC goroutines interleave between them.
EXTENDS Integers, Sequences, FiniteSets, TLC

\* volumes: the Volume Registry; calls: the NodePublishVolume calls;
\* executed: the Bind/Mount operations the Executor has completed;
\* unstage: the outcome of the last NodeUnstageVolume call observed;
\* node: the NodeServer fields; reply: the last NodeGetInfo or
\* NodeGetCapabilities response
VARIABLES volumes, calls, executed, unstage, node, reply

vars == <<volumes, calls, executed, unstage, node, reply>>

-----------------------------------------------------------------------------
\* Domains of the model

NumCalls == 2

\* calls[i] is the i-th NodePublishVolume request to arrive
Procs == 1..NumCalls

VolumeIDs == {"v1", "v2"}

StagingPaths == {"/stage"}

TargetPaths == {"/t1", "/t2"}

FsTypes == {"ext4", "xfs"}

NoFlags == <<>>

VolumeContext == "ctx"

\* csi.VolumeCapability: nil, or an access type with Block and/or Mount set
NilCap == [isNil |-> TRUE, block |-> FALSE, mount |-> FALSE, fsType |-> "", mountFlags |-> NoFlags]

NeitherCap == [isNil |-> FALSE, block |-> FALSE, mount |-> FALSE, fsType |-> "", mountFlags |-> NoFlags]

BlockCap == [isNil |-> FALSE, block |-> TRUE, mount |-> FALSE, fsType |-> "", mountFlags |-> NoFlags]

MountCap(fs) == [isNil |-> FALSE, block |-> FALSE, mount |-> TRUE, fsType |-> fs, mountFlags |-> NoFlags]

BothCap == [isNil |-> FALSE, block |-> TRUE, mount |-> TRUE, fsType |-> "ext4", mountFlags |-> NoFlags]

\* well-formed mount publishes of volume v1 at /t1, with every read-only
\* flag and filesystem type
MountRequests ==
    [vID : {"v1"}, stagingPath : {"/stage"}, targetPath : {"/t1"},
     ro : BOOLEAN, vCtx : {VolumeContext}, vCap : {MountCap(f) : f \in FsTypes}]

\* a second workload sharing volume v1, at the other target path
SharedRequests ==
    [vID : {"v1"}, stagingPath : {"/stage"}, targetPath : {"/t2"},
     ro : {FALSE}, vCtx : {VolumeContext}, vCap : {MountCap("ext4")}]

\* block and mount publishes of both volumes
AccessRequests ==
    [vID : VolumeIDs, stagingPath : {"/stage"}, targetPath : {"/t1"},
     ro : {FALSE}, vCtx : {VolumeContext}, vCap : {BlockCap, MountCap("ext4")}]

\* requests of a staged volume with a malformed capability
MalformedRequests ==
    [vID : {"v1"}, stagingPath : {"/stage"}, targetPath : {"/t1"},
     ro : {FALSE}, vCtx : {VolumeContext}, vCap : {NilCap, NeitherCap, BothCap}]

\* a request with an empty staging path
UnstagedRequests ==
    [vID : {"v1"}, stagingPath : {""}, targetPath : {"/t1"},
     ro : {FALSE}, vCtx : {VolumeContext}, vCap : {MountCap("ext4")}]

\* requests with an empty or unknown volume ID
BadVolumeRequests ==
    [vID : {"", "v9"}, stagingPath : {"/stage"}, targetPath : {"/t1"},
     ro : {FALSE}, vCtx : {VolumeContext}, vCap : {NilCap, BothCap, MountCap("ext4")}]

Requests ==
    MountRequests \cup SharedRequests \cup AccessRequests \cup MalformedRequests
    \cup UnstagedRequests \cup BadVolumeRequests

\* errors the Executor (vol.Bind / vol.Mount) can return: nil, an error that
\* already carries a gRPC status, or a plain error
NilErr == [kind |-> "nil", code |-> "OK", msg |-> ""]

ExecErrors ==
    {NilErr,
     [kind |-> "status", code |-> "Canceled", msg |-> "context canceled"],
     [kind |-> "plain", code |-> "", msg |-> "device busy"]}

-----------------------------------------------------------------------------
\* gRPC statuses

Status(code, msg) == [code |-> code, msg |-> msg]

OK == Status("OK", "")

\* not a status: the handler has not returned and falls through to the next check
Continue == Status("continue", "")

NoResult == Status("none", "")

\* req.GetVolumeCapability().GetBlock() != nil
GetBlock(vCap) == ~vCap.isNil /\ vCap.block

\* req.GetVolumeCapability().GetMount() != nil
GetMount(vCap) == ~vCap.isNil /\ vCap.mount

-----------------------------------------------------------------------------
\* Volume Registry and Executor (package volume)

NoAccess == [accessMode |-> "none", ro |-> FALSE, fsType |-> "", mountFlags |-> NoFlags, vCtx |-> ""]

BlockAccess(ro, vCtx) ==
    [accessMode |-> "block", ro |-> ro, fsType |-> "", mountFlags |-> NoFlags, vCtx |-> vCtx]

MountAccess(fs, flags, ro, vCtx) ==
    [accessMode |-> "mount", ro |-> ro, fsType |-> fs, mountFlags |-> flags, vCtx |-> vCtx]

\* the access parameters a request asks for
RequestAccess(req) ==
    [accessMode |-> IF GetBlock(req.vCap) /\ GetMount(req.vCap) THEN "both"
                    ELSE IF GetBlock(req.vCap) THEN "block"
                    ELSE IF GetMount(req.vCap) THEN "mount"
                    ELSE "none",
     ro |-> req.ro, fsType |-> req.vCap.fsType, mountFlags |-> req.vCap.mountFlags,
     vCtx |-> req.vCtx]

NewVolume(block, mount) ==
    [StagingPath |-> "", Block |-> block, Mount |-> mount,
     TargetPaths |-> [t \in TargetPaths |-> NoAccess]]

\* volume.GetVolume: err != nil
GetVolumeFails(vols, vID) == vID \notin DOMAIN vols

GetVolumeErr(vID) == "volume not found"

\* vol.ContainsTargetPaths(targetPath): ok
ContainsTargetPaths(vol, targetPath) == vol.TargetPaths[targetPath] # NoAccess

\* access.Matches(req)
Matches(access, req) == access = RequestAccess(req)

IsBlockAccessible(vol) == vol.Block

IsMountAccessible(vol) == vol.Mount

\* vol.Bind: the volume after the call that returned err
Bind(vol, targetPath, ro, vCtx, err) ==
    IF err = NilErr
    THEN [vol EXCEPT !.TargetPaths[targetPath] = BlockAccess(ro, vCtx)]
    ELSE vol

\* vol.Mount: the volume after the call that returned err
Mount(vol, targetPath, fs, flags, ro, vCtx, err) ==
    IF err = NilErr
    THEN [vol EXCEPT !.TargetPaths[targetPath] = MountAccess(fs, flags, ro, vCtx)]
    ELSE vol

\* the operation the Executor completed in a Bind that returned err
BindDone(targetPath, ro, vCtx, err) ==
    IF err = NilErr THEN {[targetPath |-> targetPath, access |-> BlockAccess(ro, vCtx)]} ELSE {}

\* the operation the Executor completed in a Mount that returned err
MountDone(targetPath, fs, flags, ro, vCtx, err) ==
    IF err = NilErr THEN {[targetPath |-> targetPath, access |-> MountAccess(fs, flags, ro, vCtx)]}
    ELSE {}

Grants(vol) == {t \in TargetPaths : vol.TargetPaths[t] # NoAccess}

-----------------------------------------------------------------------------
\* NodePublishVolume, check by check

\* CheckVolumeID without lines 99-101
CheckVolumeIDSkipped(vID) == Continue

\* if vID == ""
CheckVolumeID(vID) ==
    IF vID = "" THEN Status("InvalidArgument", "volume ID missing in request")
    ELSE Continue

\* vol, err := volume.GetVolume(ctx, vID); if err != nil
CheckGetVolume(vols, vID) ==
    IF GetVolumeFails(vols, vID) THEN Status("NotFound", GetVolumeErr(vID))
    ELSE Continue

\* CheckStagingPath that accepts the staging path of any volume of the Registry
CheckStagingPathAnyVolume(vol, stagingPath) ==
    IF \A v \in DOMAIN volumes : volumes[v].StagingPath # stagingPath
    THEN Status("FailedPrecondition", "volume staging target path is empty or incorrect")
    ELSE Continue

\* if vol.StagingPath != stagingPath
CheckStagingPath(vol, stagingPath) ==
    IF vol.StagingPath # stagingPath
    THEN Status("FailedPrecondition", "volume staging target path is empty or incorrect")
    ELSE Continue

\* CheckTargetPath without lines 112-117: an existing grant is not looked at
CheckTargetPathIgnoresGrant(vol, req) == Continue

\* CheckTargetPath without the Matches test of line 113
CheckTargetPathAnyGrant(vol, req) ==
    IF ContainsTargetPaths(vol, req.targetPath) THEN OK ELSE Continue

\* if access, ok := vol.ContainsTargetPaths(targetPath); ok
CheckTargetPath(vol, req) ==
    IF ContainsTargetPaths(vol, req.targetPath)
    THEN IF Matches(vol.TargetPaths[req.targetPath], req) THEN OK
         ELSE Status("AlreadyExists", "cannot reprovision volume at same path but different parameters")
    ELSE Continue

\* CheckCapability without lines 123-125
CheckCapabilityNoBoth(vCap) ==
    IF vCap.isNil
    THEN Status("InvalidArgument", "volume capability missing in request")
    ELSE IF ~GetBlock(vCap) /\ ~GetMount(vCap)
    THEN Status("InvalidArgument", "volume capability request contains neither mount and block access")
    ELSE Continue

\* vCap == nil, both, neither
CheckCapability(vCap) ==
    IF vCap.isNil
    THEN Status("InvalidArgument", "volume capability missing in request")
    ELSE IF GetBlock(vCap) /\ GetMount(vCap)
    THEN Status("InvalidArgument", "volume capability request contains both mount and block access")
    ELSE IF ~GetBlock(vCap) /\ ~GetMount(vCap)
    THEN Status("InvalidArgument", "volume capability request contains neither mount and block access")
    ELSE Continue

\* ExecutorStatus without the status.FromError test: every failure is wrapped
ExecutorStatusWrapsAll(err) == Status("Internal", err.msg)

\* if _, ok := status.FromError(err); ok { return nil, err }
\* return nil, status.Error(codes.Internal, err.Error())
ExecutorStatus(err) ==
    IF err.kind = "status" THEN Status(err.code, err.msg)
    ELSE Status("Internal", err.msg)

\* CheckBlockAccess without lines 132-134
CheckBlockAccessSkipped(vol) == Continue

\* if !vol.IsBlockAccessible()
CheckBlockAccess(vol) ==
    IF ~IsBlockAccessible(vol)
    THEN Status("InvalidArgument", "volume does not support block access")
    ELSE Continue

\* if !vol.IsMountAccessible()
CheckMountAccess(vol) ==
    IF ~IsMountAccessible(vol)
    THEN Status("InvalidArgument", "volume does not support mount access")
    ELSE Continue

-----------------------------------------------------------------------------
\* NodeServer, NodeGetInfo and NodeGetCapabilities

MaxVolumes == 10000

\* func NewNodeServer(identity, nodeID, rack, zone, region string)
NewNodeServer(identity, nodeID, rack, zone, region) ==
    [NodeID |-> nodeID, Identity |-> identity, Rack |-> rack, Zone |-> zone, Region |-> region]

\* the arguments the process can be started with
NodeServers ==
    {NewNodeServer("direct-csi", "node-a", "rack-1", "zone-1", "region-1"),
     NewNodeServer("jbod-csi", "node-b", "rack-2", "zone-2", "region-2")}

\* keys of the topology segments (package topology)
TopologyDriverIdentity == "identity"

TopologyDriverNode == "node"

TopologyDriverRack == "rack"

TopologyDriverZone == "zone"

TopologyDriverRegion == "region"

TopologyKeys ==
    {TopologyDriverIdentity, TopologyDriverNode, TopologyDriverRack, TopologyDriverZone,
     TopologyDriverRegion}

\* Segments: map[string]string{...} of lines 53-59
Segments(n) ==
    [k \in TopologyKeys |->
        IF k = TopologyDriverIdentity THEN n.Identity
        ELSE IF k = TopologyDriverNode THEN n.NodeID
        ELSE IF k = TopologyDriverRack THEN n.Rack
        ELSE IF k = TopologyDriverZone THEN n.Zone
        ELSE n.Region]

\* NodeGetInfoResponse with the driver identity reported as the node ID
NodeGetInfoResponseIdentity(n) ==
    [rpc |-> "NodeGetInfo", NodeId |-> n.Identity, MaxVolumesPerNode |-> MaxVolumes,
     AccessibleTopology |-> Segments(n)]

\* &csi.NodeGetInfoResponse{...} of lines 62-66
NodeGetInfoResponse(n) ==
    [rpc |-> "NodeGetInfo", NodeId |-> n.NodeID, MaxVolumesPerNode |-> MaxVolumes,
     AccessibleTopology |-> Segments(n)]

\* NodeGetCapabilitiesResponse without STAGE_UNSTAGE_VOLUME
NodeGetCapabilitiesResponseNoStage ==
    [rpc |-> "NodeGetCapabilities",
     Capabilities |-> <<"VOLUME_CONDITION", "GET_VOLUME_STATS">>]

\* &csi.NodeGetCapabilitiesResponse{...} of lines 82-88
NodeGetCapabilitiesResponse ==
    [rpc |-> "NodeGetCapabilities",
     Capabilities |-> <<"VOLUME_CONDITION", "GET_VOLUME_STATS", "STAGE_UNSTAGE_VOLUME">>]

NoReply == [rpc |-> "none"]

-----------------------------------------------------------------------------
\* State

NoRequest ==
    [vID |-> "", stagingPath |-> "", targetPath |-> "/t1", ro |-> FALSE,
     vCtx |-> VolumeContext, vCap |-> NilCap]

IdleCall ==
    [pc |-> "idle", req |-> NoRequest,
     result |-> NoResult, binds |-> 0, mounts |-> 0, wrote |-> FALSE, err |-> NilErr]

\* no NodeUnstageVolume call has returned yet
NoUnstage == [vID |-> "", failed |-> FALSE]

Init ==
    /\ volumes = [v \in VolumeIDs |-> IF v = "v1" THEN NewVolume(FALSE, TRUE) ELSE NewVolume(TRUE, FALSE)]
    /\ calls = [p \in Procs |-> IdleCall]
    /\ executed = {}
    /\ unstage = NoUnstage
    /\ node = NewNodeServer("direct-csi", "node-a", "rack-1", "zone-1", "region-1")
    /\ reply = NoReply

Return(call, status) == [call EXCEPT !.pc = "done", !.result = status]

\* lines 91-110: the request arrives; volume ID check, registry lookup and
\* staging path check
Call(p, req) ==
    /\ calls[p].pc = "idle"
    /\ \A q \in Procs : q < p => calls[q].pc # "idle"
    /\ LET st == IF CheckVolumeID(req.vID) # Continue THEN CheckVolumeID(req.vID)
                 ELSE IF CheckGetVolume(volumes, req.vID) # Continue
                 THEN CheckGetVolume(volumes, req.vID)
                 ELSE CheckStagingPath(volumes[req.vID], req.stagingPath)
           c == [calls[p] EXCEPT !.req = req]
       IN calls' = [calls EXCEPT ![p] = IF st # Continue THEN Return(c, st)
                                        ELSE [c EXCEPT !.pc = "target"]]
    /\ UNCHANGED <<volumes, executed, unstage, node, reply>>

\* Target with the capability checks of lines 119-129 before the grant check
TargetCapabilityFirst(p) ==
    /\ calls[p].pc = "target"
    /\ LET c == calls[p]
           vol == volumes[c.req.vID]
           st == IF CheckCapability(c.req.vCap) # Continue THEN CheckCapability(c.req.vCap)
                 ELSE CheckTargetPath(vol, c.req)
       IN calls' = [calls EXCEPT ![p] = IF st # Continue THEN Return(c, st)
                                        ELSE [c EXCEPT !.pc = "publish"]]
    /\ UNCHANGED <<volumes, executed, unstage, node, reply>>

\* lines 112-129: existing grant at the target path, then the capability checks
Target(p) ==
    /\ calls[p].pc = "target"
    /\ LET c == calls[p]
           vol == volumes[c.req.vID]
           st == IF CheckTargetPath(vol, c.req) # Continue THEN CheckTargetPath(vol, c.req)
                 ELSE CheckCapability(c.req.vCap)
       IN calls' = [calls EXCEPT ![p] = IF st # Continue THEN Return(c, st)
                                        ELSE [c EXCEPT !.pc = "publish"]]
    /\ UNCHANGED <<volumes, executed, unstage, node, reply>>

NoExec(vol, status) == [status |-> status, vol |-> vol, execs |-> 0, err |-> NilErr, ops |-> {}]

\* BlockBranch with Bind called before the access check of line 132
BlockBranchBindsFirst(vol, req, err) ==
    IF ~GetBlock(req.vCap) THEN NoExec(vol, Continue)
    ELSE [status |-> IF err # NilErr THEN ExecutorStatus(err) ELSE CheckBlockAccess(vol),
          vol |-> Bind(vol, req.targetPath, req.ro, req.vCtx, err),
          execs |-> 1, err |-> err,
          ops |-> BindDone(req.targetPath, req.ro, req.vCtx, err)]

\* BlockBranch that calls Bind a second time when the first call fails
BlockBranchRetriesBind(vol, req, err) ==
    IF ~GetBlock(req.vCap) THEN NoExec(vol, Continue)
    ELSE IF CheckBlockAccess(vol) # Continue THEN NoExec(vol, CheckBlockAccess(vol))
    ELSE [status |-> IF err # NilErr THEN ExecutorStatus(err) ELSE Continue,
          vol |-> Bind(vol, req.targetPath, req.ro, req.vCtx, err),
          execs |-> IF err # NilErr THEN 2 ELSE 1, err |-> err,
          ops |-> BindDone(req.targetPath, req.ro, req.vCtx, err)]

\* lines 131-143: the block branch; Continue when the handler goes on to line 145
BlockBranch(vol, req, err) ==
    IF ~GetBlock(req.vCap) THEN NoExec(vol, Continue)
    ELSE IF CheckBlockAccess(vol) # Continue THEN NoExec(vol, CheckBlockAccess(vol))
    ELSE [status |-> IF err # NilErr THEN ExecutorStatus(err) ELSE Continue,
          vol |-> Bind(vol, req.targetPath, req.ro, req.vCtx, err),
          execs |-> 1, err |-> err,
          ops |-> BindDone(req.targetPath, req.ro, req.vCtx, err)]

\* MountBranch that does not pass the request's read-only flag to Mount
MountBranchReadWrite(vol, req, err) ==
    IF ~GetMount(req.vCap) THEN NoExec(vol, Continue)
    ELSE IF CheckMountAccess(vol) # Continue THEN NoExec(vol, CheckMountAccess(vol))
    ELSE [status |-> IF err # NilErr THEN ExecutorStatus(err) ELSE Continue,
          vol |-> Mount(vol, req.targetPath, req.vCap.fsType, req.vCap.mountFlags, FALSE, req.vCtx, err),
          execs |-> 1, err |-> err,
          ops |-> MountDone(req.targetPath, req.vCap.fsType, req.vCap.mountFlags, FALSE, req.vCtx, err)]

\* MountBranch with Mount called before the access check of line 146
MountBranchMountsFirst(vol, req, err) ==
    IF ~GetMount(req.vCap) THEN NoExec(vol, Continue)
    ELSE [status |-> IF err # NilErr THEN ExecutorStatus(err) ELSE CheckMountAccess(vol),
          vol |-> Mount(vol, req.targetPath, req.vCap.fsType, req.vCap.mountFlags, req.ro, req.vCtx, err),
          execs |-> 1, err |-> err,
          ops |-> MountDone(req.targetPath, req.vCap.fsType, req.vCap.mountFlags, req.ro, req.vCtx, err)]

\* MountBranch that records the new grant in a fresh grant map
MountBranchReplacesGrants(vol, req, err) ==
    IF ~GetMount(req.vCap) THEN NoExec(vol, Continue)
    ELSE IF CheckMountAccess(vol) # Continue THEN NoExec(vol, CheckMountAccess(vol))
    ELSE [status |-> IF err # NilErr THEN ExecutorStatus(err) ELSE Continue,
          vol |-> Mount([vol EXCEPT !.TargetPaths = [t \in TargetPaths |-> NoAccess]],
                        req.targetPath, req.vCap.fsType, req.vCap.mountFlags, req.ro, req.vCtx, err),
          execs |-> 1, err |-> err,
          ops |-> MountDone(req.targetPath, req.vCap.fsType, req.vCap.mountFlags, req.ro, req.vCtx, err)]

\* lines 145-160: the mount branch; Continue when the handler goes on to line 161
MountBranch(vol, req, err) ==
    IF ~GetMount(req.vCap) THEN NoExec(vol, Continue)
    ELSE IF CheckMountAccess(vol) # Continue THEN NoExec(vol, CheckMountAccess(vol))
    ELSE [status |-> IF err # NilErr THEN ExecutorStatus(err) ELSE Continue,
          vol |-> Mount(vol, req.targetPath, req.vCap.fsType, req.vCap.mountFlags, req.ro, req.vCtx, err),
          execs |-> 1, err |-> err,
          ops |-> MountDone(req.targetPath, req.vCap.fsType, req.vCap.mountFlags, req.ro, req.vCtx, err)]

\* lines 131-161: access check, Bind or Mount, return; err is what the
\* Executor returns when it is called
Publish(p, err) ==
    /\ calls[p].pc = "publish"
    /\ LET c == calls[p]
           req == c.req
           b == BlockBranch(volumes[req.vID], req, err)
           m == IF b.status # Continue THEN NoExec(b.vol, b.status)
                ELSE MountBranch(b.vol, req, err)
           st == IF m.status # Continue THEN m.status ELSE OK
       IN /\ volumes' = [volumes EXCEPT ![req.vID] = m.vol]
          /\ calls' = [calls EXCEPT ![p] =
                 [Return(c, st) EXCEPT !.binds = c.binds + b.execs, !.mounts = c.mounts + m.execs,
                                       !.wrote = (m.vol # volumes[req.vID]),
                                       !.err = IF b.err # NilErr THEN b.err ELSE m.err]]
          /\ executed' = executed \cup
                 {[vID |-> req.vID, targetPath |-> op.targetPath, access |-> op.access] :
                     op \in b.ops \cup m.ops}
          /\ UNCHANGED <<unstage, node, reply>>

NodePublishVolume(p) ==
    \/ \E req \in Requests : Call(p, req)
    \/ Target(p)
    \/ \E err \in ExecErrors : Publish(p, err)

\* NodeStageVolume: sets StagingPath of an unstaged volume
NodeStageVolume(v, path) ==
    /\ volumes[v].StagingPath = ""
    /\ volumes' = [volumes EXCEPT ![v].StagingPath = path]
    /\ UNCHANGED <<calls, executed, unstage, node, reply>>

\* UnstageVolume without the test for remaining grants
UnstageVolumeForced(vol) == [failed |-> FALSE, vol |-> [vol EXCEPT !.StagingPath = ""]]

\* NodeUnstageVolume on a volume record: rejected while any grant remains,
\* otherwise StagingPath is cleared
UnstageVolume(vol) ==
    IF Grants(vol) # {} THEN [failed |-> TRUE, vol |-> vol]
    ELSE [failed |-> FALSE, vol |-> [vol EXCEPT !.StagingPath = ""]]

\* a NodeUnstageVolume call that succeeds
NodeUnstageVolume(v) ==
    /\ volumes[v].StagingPath # ""
    /\ ~UnstageVolume(volumes[v]).failed
    /\ volumes' = [volumes EXCEPT ![v] = UnstageVolume(volumes[v]).vol]
    /\ UNCHANGED <<calls, executed, unstage, node, reply>>

\* a NodeUnstageVolume call as its caller sees it: unstage is the outcome of
\* the call that returned last
NodeUnstageVolumeReturns(v) ==
    /\ volumes[v].StagingPath # "" \/ Grants(volumes[v]) # {}
    /\ volumes' = [volumes EXCEPT ![v] = UnstageVolume(volumes[v]).vol]
    /\ unstage' = [vID |-> v, failed |-> UnstageVolume(volumes[v]).failed]
    /\ UNCHANGED <<calls, executed, node, reply>>

\* NodeUnpublishVolume: removes the grant of the target path
NodeUnpublishVolume(v, t) ==
    /\ volumes[v].TargetPaths[t] # NoAccess
    /\ volumes' = [volumes EXCEPT ![v].TargetPaths[t] = NoAccess]
    /\ UNCHANGED <<calls, executed, unstage, node, reply>>

Stage == \E v \in VolumeIDs, path \in StagingPaths : NodeStageVolume(v, path)

Unstage == \E v \in VolumeIDs : NodeUnstageVolume(v)

UnstageReturns == \E v \in VolumeIDs : NodeUnstageVolumeReturns(v)

Unpublish == \E v \in VolumeIDs, t \in TargetPaths : NodeUnpublishVolume(v, t)

\* lines 51-67
NodeGetInfo ==
    /\ reply' = NodeGetInfoResponse(node)
    /\ UNCHANGED <<volumes, calls, executed, unstage, node>>

\* lines 69-89
NodeGetCapabilities ==
    /\ reply' = NodeGetCapabilitiesResponse
    /\ UNCHANGED <<volumes, calls, executed, unstage, node>>

PublishStep == \E p \in Procs : NodePublishVolume(p)

Next == PublishStep \/ Stage \/ Unstage \/ Unpublish

Spec == Init /\ [][Next]_vars

\* publishes only: once staged a volume stays staged and no grant is removed
NextPub == PublishStep \/ Stage

SpecPub == Init /\ [][NextPub]_vars

\* publishes one after the other: a request arrives when every earlier call
\* has returned
CallSeq(p, req) ==
    /\ \A q \in Procs : q < p => calls[q].pc = "done"
    /\ Call(p, req)

NodePublishVolumeSeq(p) ==
    \/ \E req \in Requests : CallSeq(p, req)
    \/ Target(p)
    \/ \E err \in ExecErrors : Publish(p, err)

PublishStepSeq == \E p \in Procs : NodePublishVolumeSeq(p)

NextSeq == PublishStepSeq \/ Stage

SpecSeq == Init /\ [][NextSeq]_vars

\* a node server started with any of the configurations: NodeGetInfo and
\* NodeGetCapabilities between publishes, stages and unpublishes
InitNode ==
    /\ volumes = [v \in VolumeIDs |-> IF v = "v1" THEN NewVolume(FALSE, TRUE) ELSE NewVolume(TRUE, FALSE)]
    /\ calls = [p \in Procs |-> IdleCall]
    /\ executed = {}
    /\ unstage = NoUnstage
    /\ node \in NodeServers
    /\ reply = NoReply

NextNode == PublishStepSeq \/ Stage \/ Unpublish \/ NodeGetInfo \/ NodeGetCapabilities

SpecNode == InitNode /\ [][NextNode]_vars

\* staging, publishing one call after the other, unpublishing and unstaging,
\* with the outcome of every unstage call
NextStage == PublishStepSeq \/ Stage \/ UnstageReturns \/ Unpublish

SpecStage == Init /\ [][NextStage]_vars

TypeOK ==
    /\ \A p \in Procs : IF calls[p].pc = "idle" THEN calls[p] = IdleCall ELSE calls[p].req \in Requests
    /\ \A v \in VolumeIDs : volumes[v].StagingPath \in StagingPaths \cup {""}
    /\ unstage \in [vID : VolumeIDs \cup {""}, failed : BOOLEAN]
    /\ node \in NodeServers
    /\ reply \in {NoReply, NodeGetInfoResponse(node), NodeGetCapabilitiesResponse}

-----------------------------------------------------------------------------
\* Properties

Done(p) == calls[p].pc = "done"

Execs(p) == calls[p].binds + calls[p].mounts

Succeeded(p) == Done(p) /\ calls[p].result = OK

\* the grant recorded for the target path of call p's request
GrantOf(p) == volumes[calls[p].req.vID].TargetPaths[calls[p].req.targetPath]

KnownVolume(p) == calls[p].pc # "idle" /\ calls[p].req.vID \in VolumeIDs

\* C1: any two calls for the same staged volume with identical requests that
\* have both returned success have invoked the Executor's Bind/Mount exactly
\* once between them.
C1_ExactlyOneMount ==
    \A p \in Procs, q \in Procs :
        (p < q /\ Succeeded(p) /\ Succeeded(q) /\ calls[p].req = calls[q].req
              /\ calls[p].req.stagingPath # "")
            => Execs(p) + Execs(q) = 1

\* C2: when a publish of a staged volume has returned success, a later call
\* with identical arguments returns success without invoking Bind or Mount and
\* without writing to the Registry, and the target path holds the one grant
\* whose parameters are the request's.
C2_Idempotent ==
    \A p \in Procs, q \in Procs :
        (p < q /\ Succeeded(p) /\ Done(q) /\ calls[p].req = calls[q].req
              /\ calls[p].req.stagingPath # "")
            => /\ Succeeded(q)
               /\ Execs(q) = 0
               /\ ~calls[q].wrote
               /\ GrantOf(q) = RequestAccess(calls[q].req)
               /\ Cardinality({t \in Grants(volumes[calls[q].req.vID]) : t = calls[q].req.targetPath}) = 1

C2_Witness ==
    \E p \in Procs, q \in Procs :
        /\ p < q /\ calls[p].req = calls[q].req /\ calls[p].req.stagingPath # ""
        /\ Succeeded(p) /\ Execs(p) = 1
        /\ Succeeded(q) /\ Execs(q) = 0

\* the step in which call p runs Bind/Mount and returns success
PublishSucceeds(p) ==
    /\ calls[p].pc = "publish"
    /\ calls'[p].pc = "done"
    /\ calls'[p].result = OK

\* C3: the step in which a publish goes through Bind/Mount and returns success
\* leaves a grant at the request's target path whose parameters equal the
\* request's, and changes no other grant, staging path or capability flag.
C3_GrantRecorded ==
    [][\A p \in Procs :
          PublishSucceeds(p) =>
              LET r == calls[p].req IN
              /\ volumes'[r.vID].TargetPaths[r.targetPath] = RequestAccess(r)
              /\ \A v \in VolumeIDs :
                    /\ volumes'[v].StagingPath = volumes[v].StagingPath
                    /\ volumes'[v].Block = volumes[v].Block
                    /\ volumes'[v].Mount = volumes[v].Mount
                    /\ \A t \in TargetPaths :
                          (v # r.vID \/ t # r.targetPath)
                              => volumes'[v].TargetPaths[t] = volumes[v].TargetPaths[t]]_vars

C3_Witness ==
    \E p \in Procs, q \in Procs :
        /\ p # q /\ Succeeded(p) /\ calls[p].wrote /\ calls[p].req.ro
        /\ Succeeded(q) /\ calls[q].wrote
        /\ calls[q].req.vID = calls[p].req.vID
        /\ calls[q].req.targetPath # calls[p].req.targetPath
        /\ GrantOf(p) = RequestAccess(calls[p].req)
        /\ GrantOf(q) = RequestAccess(calls[q].req)

\* call p is at the grant check and the target path holds a grant whose
\* read-only flag or filesystem type differs from the request's
ConflictingGrant(p) ==
    /\ calls[p].pc = "target"
    /\ GrantOf(p) # NoAccess
    /\ \/ GrantOf(p).ro # calls[p].req.ro
       \/ GrantOf(p).fsType # calls[p].req.vCap.fsType

\* C4: a publish that finds at its target path a grant with another read-only
\* flag or filesystem type returns AlreadyExists at that step, has invoked
\* neither Bind nor Mount, and leaves the Registry, the grant included, as it was.
C4_Conflict ==
    [][\A p \in Procs :
          (ConflictingGrant(p) /\ calls'[p] # calls[p])
              => /\ calls'[p].pc = "done"
                 /\ calls'[p].result.code = "AlreadyExists"
                 /\ calls'[p].binds = 0 /\ calls'[p].mounts = 0
                 /\ volumes' = volumes]_vars

C4_Witness ==
    \E p \in Procs, q \in Procs :
        /\ p < q /\ Succeeded(p) /\ calls[p].wrote
        /\ Done(q) /\ calls[q].result.code = "AlreadyExists" /\ Execs(q) = 0
        /\ calls[q].req.vID = calls[p].req.vID
        /\ calls[q].req.targetPath = calls[p].req.targetPath
        /\ calls[q].req.ro # calls[p].req.ro
        /\ GrantOf(q) = RequestAccess(calls[p].req)

\* C5: a publish of a known volume with an empty request staging path never
\* gets past the staging check: it returns FailedPrecondition without Bind/Mount.
C5_EmptyStagingRejected ==
    \A p \in Procs :
        (KnownVolume(p) /\ calls[p].req.stagingPath = "")
            => /\ Done(p)
               /\ calls[p].result.code = "FailedPrecondition"
               /\ Execs(p) = 0

BothAccess(p) ==
    /\ calls[p].pc # "idle"
    /\ GetBlock(calls[p].req.vCap)
    /\ GetMount(calls[p].req.vCap)

\* C6 as stated: a request with both block and mount access returns
\* InvalidArgument whatever the volume ID, staging state or existing grants.
C6_BothRejectedFirst ==
    \A p \in Procs :
        BothAccess(p) => (Done(p) => calls[p].result.code = "InvalidArgument")

\* C6 as amended: a request with both block and mount access never reaches
\* Bind/Mount and never writes to the Registry; at the grant check it returns
\* AlreadyExists when the target path holds a grant and otherwise
\* InvalidArgument for the capability, and before that check the volume ID,
\* lookup and staging path checks decide (InvalidArgument, NotFound,
\* FailedPrecondition).
C6_BothNeverExecuted ==
    /\ [](\A p \in Procs :
            BothAccess(p) =>
                /\ calls[p].pc # "publish"
                /\ Execs(p) = 0
                /\ ~calls[p].wrote
                /\ Done(p) => calls[p].result.code \in
                       {"InvalidArgument", "NotFound", "FailedPrecondition", "AlreadyExists"})
    /\ [][\A p \in Procs :
            (BothAccess(p) /\ calls[p].pc = "target" /\ calls'[p] # calls[p])
                => /\ calls'[p].pc = "done"
                   /\ calls'[p].result =
                          IF GrantOf(p) # NoAccess
                          THEN Status("AlreadyExists", "cannot reprovision volume at same path but different parameters")
                          ELSE Status("InvalidArgument", "volume capability request contains both mount and block access")
                   /\ volumes' = volumes]_vars

C6_Witness ==
    \E p \in Procs :
        /\ BothAccess(p) /\ Done(p) /\ KnownVolume(p)
        /\ volumes[calls[p].req.vID].StagingPath = calls[p].req.stagingPath
        /\ calls[p].req.stagingPath # ""
        /\ calls[p].result = Status("InvalidArgument", "volume capability request contains both mount and block access")

\* C7: every step of a NodePublishVolume call other than the one that
\* returns success leaves every volume's StagingPath and grant map as they
\* were, so a call that returns an error has written nothing.
C7_ErrorsLeaveRegistry ==
    /\ [](\A p \in Procs : (Done(p) /\ calls[p].result # OK) => ~calls[p].wrote)
    /\ [][\A p \in Procs :
            (calls'[p] # calls[p] /\ ~(calls'[p].pc = "done" /\ calls'[p].result = OK))
                => volumes' = volumes]_vars

C7_Witness ==
    \E p \in Procs, q \in Procs :
        /\ p # q /\ Done(p) /\ Done(q)
        /\ calls[p].result.code = "Internal" /\ Execs(p) = 1 /\ ~calls[p].wrote
        /\ calls[q].result.code = "InvalidArgument" /\ KnownVolume(q)
        /\ GrantOf(p) = NoAccess

\* C8: every grant in the Registry is one that a Bind/Mount completed
\* successfully for that volume, target path and parameters, and a call whose
\* Bind/Mount failed has written no grant.
C8_GrantAfterSuccess ==
    /\ \A v \in VolumeIDs, t \in TargetPaths :
          volumes[v].TargetPaths[t] # NoAccess
              => [vID |-> v, targetPath |-> t, access |-> volumes[v].TargetPaths[t]] \in executed
    /\ \A p \in Procs :
          (Done(p) /\ Execs(p) >= 1 /\ calls[p].result # OK) => ~calls[p].wrote

\* a publish whose Executor call failed left no grant, and the retry with the
\* same arguments invoked the Executor again and succeeded
C8_Witness ==
    \E p \in Procs, q \in Procs :
        /\ p < q /\ calls[p].req = calls[q].req
        /\ Done(p) /\ calls[p].err # NilErr /\ Execs(p) = 1 /\ ~calls[p].wrote
        /\ Succeeded(q) /\ Execs(q) = 1 /\ calls[q].wrote
        /\ GrantOf(q) = RequestAccess(calls[q].req)

\* call p asks for block access only, on a volume that does not permit it
BlockDenied(p) ==
    /\ KnownVolume(p)
    /\ GetBlock(calls[p].req.vCap) /\ ~GetMount(calls[p].req.vCap)
    /\ ~volumes[calls[p].req.vID].Block

\* call p asks for mount access only, on a volume that does not permit it
MountDenied(p) ==
    /\ KnownVolume(p)
    /\ GetMount(calls[p].req.vCap) /\ ~GetBlock(calls[p].req.vCap)
    /\ ~volumes[calls[p].req.vID].Mount

\* C9: a block publish of a volume that does not permit block access never
\* invokes Bind and records nothing, and once past the staging and grant
\* checks it returns InvalidArgument "volume does not support block access";
\* likewise for mount; and no volume holds a grant of an access mode it does
\* not permit.
C9_AccessRestricted ==
    /\ \A p \in Procs :
          BlockDenied(p) =>
              /\ Execs(p) = 0 /\ ~calls[p].wrote
              /\ Done(p) =>
                    \/ calls[p].result.code \in {"FailedPrecondition", "AlreadyExists"}
                    \/ calls[p].result = Status("InvalidArgument", "volume does not support block access")
    /\ \A p \in Procs :
          MountDenied(p) =>
              /\ Execs(p) = 0 /\ ~calls[p].wrote
              /\ Done(p) =>
                    \/ calls[p].result.code \in {"FailedPrecondition", "AlreadyExists"}
                    \/ calls[p].result = Status("InvalidArgument", "volume does not support mount access")
    /\ \A v \in VolumeIDs, t \in TargetPaths :
          /\ volumes[v].TargetPaths[t].accessMode = "block" => volumes[v].Block
          /\ volumes[v].TargetPaths[t].accessMode = "mount" => volumes[v].Mount

C9_Witness ==
    \E p \in Procs, q \in Procs :
        /\ BlockDenied(p) /\ Done(p)
        /\ calls[p].result = Status("InvalidArgument", "volume does not support block access")
        /\ MountDenied(q) /\ Done(q)
        /\ calls[q].result = Status("InvalidArgument", "volume does not support mount access")

\* C10: a call whose Bind/Mount returned an error returns that error's own
\* code and message when the error carries a gRPC status, and otherwise
\* Internal with the error's message.
C10_ExecutorErrors ==
    \A p \in Procs :
        (Done(p) /\ calls[p].err # NilErr)
            => /\ Execs(p) = 1
               /\ calls[p].err.kind = "status"
                     => /\ calls[p].result.code = calls[p].err.code
                        /\ calls[p].result.msg = calls[p].err.msg
               /\ calls[p].err.kind = "plain"
                     => /\ calls[p].result.code = "Internal"
                        /\ calls[p].result.msg = calls[p].err.msg

C10_Witness ==
    \E p \in Procs, q \in Procs :
        /\ Done(p) /\ calls[p].err.kind = "status" /\ calls[p].result.code = "Canceled"
        /\ Done(q) /\ calls[q].err.kind = "plain" /\ calls[q].result.code = "Internal"
        /\ calls[q].result.msg = "device busy"

\* call p names a volume that is not in the Registry
UnknownVolume(p) ==
    /\ calls[p].pc # "idle"
    /\ calls[p].req.vID # ""
    /\ calls[p].req.vID \notin DOMAIN volumes

\* C11: a publish with an empty volume ID has returned InvalidArgument and one
\* with a non-empty volume ID that is not in the Registry has returned
\* NotFound, at its first step; neither has invoked Bind or Mount or written
\* to the Registry, and the Registry holds no record the model did not start with.
C11_UnknownVolume ==
    /\ \A p \in Procs :
          (calls[p].pc # "idle" /\ calls[p].req.vID = "")
              => /\ Done(p)
                 /\ calls[p].result = Status("InvalidArgument", "volume ID missing in request")
                 /\ Execs(p) = 0 /\ ~calls[p].wrote
    /\ \A p \in Procs :
          UnknownVolume(p)
              => /\ Done(p)
                 /\ calls[p].result.code = "NotFound"
                 /\ Execs(p) = 0 /\ ~calls[p].wrote
    /\ DOMAIN volumes = VolumeIDs
    /\ \A e \in executed : e.vID \in VolumeIDs

C11_Witness ==
    \E p \in Procs, q \in Procs :
        /\ Done(p) /\ calls[p].req.vID = "" /\ calls[p].result.code = "InvalidArgument"
        /\ UnknownVolume(q) /\ Done(q) /\ calls[q].result.code = "NotFound"
        /\ ~calls[q].req.vCap.isNil

\* the step is a NodeUnstageVolume call on volume v that returns
UnstageReturned(v) ==
    /\ unstage'.vID = v
    /\ \/ unstage' # unstage
       \/ volumes[v].StagingPath # "" /\ volumes'[v].StagingPath = ""

\* C12: a NodeUnstageVolume call on a volume with at least one grant fails and
\* leaves the Registry, StagingPath included, as it was; a call on a volume
\* with no grant succeeds and clears StagingPath; and no step clears the
\* StagingPath of a volume that still has a grant.
C12_UnstageGated ==
    [][\A v \in VolumeIDs :
          /\ (UnstageReturned(v) /\ Grants(volumes[v]) # {})
                => /\ unstage'.failed
                   /\ volumes' = volumes
          /\ (UnstageReturned(v) /\ Grants(volumes[v]) = {})
                => /\ ~unstage'.failed
                   /\ volumes'[v].StagingPath = ""
                   /\ Grants(volumes'[v]) = {}
          /\ (volumes[v].StagingPath # "" /\ volumes'[v].StagingPath = "")
                => /\ Grants(volumes[v]) = {}
                   /\ unstage' = [vID |-> v, failed |-> FALSE]]_vars

\* one volume was published, unpublished and then unstaged, and the unstage
\* of another volume that still has its grant was rejected
C12_Witness ==
    \E p \in Procs, q \in Procs :
        /\ Succeeded(p) /\ calls[p].wrote /\ calls[p].req.stagingPath # ""
        /\ volumes[calls[p].req.vID].StagingPath = ""
        /\ Grants(volumes[calls[p].req.vID]) = {}
        /\ Succeeded(q) /\ calls[q].wrote /\ calls[q].req.vID # calls[p].req.vID
        /\ GrantOf(q) # NoAccess
        /\ volumes[calls[q].req.vID].StagingPath # ""
        /\ unstage = [vID |-> calls[q].req.vID, failed |-> TRUE]

\* C13: no volume has a grant and an empty StagingPath: the grant a publish
\* with a non-empty staging path has recorded is never found on a volume
\* whose StagingPath an unstage has cleared.
C13_NoGrantOnUnstaged ==
    \A p \in Procs :
        (Succeeded(p) /\ calls[p].wrote /\ calls[p].req.stagingPath # ""
              /\ GrantOf(p) = RequestAccess(calls[p].req))
            => volumes[calls[p].req.vID].StagingPath # ""

\* C14: every NodeGetInfo response carries the node ID the server was
\* constructed with, MaxVolumesPerNode = 10000 and topology segments with
\* exactly the five keys driver identity, node, rack, zone and region mapped to
\* the constructed values; no step changes the server's configuration, so two
\* responses are equal whatever publishes, stages and unpublishes ran between them.
C14_NodeInfo ==
    /\ [](node \in NodeServers)
    /\ [](reply.rpc = "NodeGetInfo" =>
            /\ reply.NodeId = node.NodeID
            /\ reply.MaxVolumesPerNode = 10000
            /\ DOMAIN reply.AccessibleTopology =
                   {TopologyDriverIdentity, TopologyDriverNode, TopologyDriverRack,
                    TopologyDriverZone, TopologyDriverRegion}
            /\ Cardinality(DOMAIN reply.AccessibleTopology) = 5
            /\ reply.AccessibleTopology[TopologyDriverIdentity] = node.Identity
            /\ reply.AccessibleTopology[TopologyDriverNode] = node.NodeID
            /\ reply.AccessibleTopology[TopologyDriverRack] = node.Rack
            /\ reply.AccessibleTopology[TopologyDriverZone] = node.Zone
            /\ reply.AccessibleTopology[TopologyDriverRegion] = node.Region)
    /\ [][node' = node]_vars
    /\ [][(reply.rpc = "NodeGetInfo" /\ reply'.rpc = "NodeGetInfo") => reply' = reply]_vars

\* NodeGetInfo answered after a publish recorded a grant, on the second configuration
C14_Witness ==
    /\ reply.rpc = "NodeGetInfo"
    /\ node.NodeID = "node-b"
    /\ reply.NodeId = "node-b"
    /\ reply.AccessibleTopology[TopologyDriverZone] = "zone-2"
    /\ \E p \in Procs : Succeeded(p) /\ calls[p].wrote /\ GrantOf(p) # NoAccess

\* C15: every NodeGetCapabilities response lists exactly the three
\* capabilities stage/unstage volume, get volume stats and volume condition,
\* each once, whatever the Registry holds and whatever calls came before.
C15_Capabilities ==
    reply.rpc = "NodeGetCapabilities" =>
        /\ {reply.Capabilities[i] : i \in DOMAIN reply.Capabilities} =
               {"STAGE_UNSTAGE_VOLUME", "GET_VOLUME_STATS", "VOLUME_CONDITION"}
        /\ Len(reply.Capabilities) = 3

\* NodeGetCapabilities answered while a volume is staged and holds a grant
C15_Witness ==
    /\ reply.rpc = "NodeGetCapabilities"
    /\ Len(reply.Capabilities) = 3
    /\ \E p \in Procs :
          /\ Succeeded(p) /\ calls[p].wrote /\ GrantOf(p) # NoAccess
          /\ volumes[calls[p].req.vID].StagingPath # ""
    /\ \E q \in Procs : Done(q) /\ calls[q].result.code = "NotFound"

\* call p asks a known volume for one access type the volume permits, with a
\* non-empty staging path
WellFormed(p) ==
    /\ KnownVolume(p)
    /\ calls[p].req.stagingPath # ""
    /\ GetBlock(calls[p].req.vCap) # GetMount(calls[p].req.vCap)
    /\ GetBlock(calls[p].req.vCap) => volumes[calls[p].req.vID].Block
    /\ GetMount(calls[p].req.vCap) => volumes[calls[p].req.vID].Mount

\* call p found the volume staged at its staging path and its Executor call,
\* if any, returned no error
StagedAndExecuted(p) ==
    /\ Done(p)
    /\ calls[p].result.code # "FailedPrecondition"
    /\ calls[p].err = NilErr

\* no call other than p and q addresses the target path of p or of q
OnlyCallsAt(p, q) ==
    \A r \in Procs \ {p, q} :
        calls[r].pc = "idle"
        \/ calls[r].req.vID # calls[p].req.vID
        \/ calls[r].req.targetPath \notin {calls[p].req.targetPath, calls[q].req.targetPath}

\* C16: two well-formed publishes of the same staged volume at different
\* target paths, one after the other or interleaved, whose Executor calls
\* return no error and whose target paths no other call addresses, have both
\* returned success after one Bind/Mount each, and the volume holds both
\* grants, each with its own request's parameters.
C16_BothGrantsKept ==
    \A p \in Procs, q \in Procs :
        (/\ p # q
         /\ WellFormed(p) /\ WellFormed(q)
         /\ calls[p].req.vID = calls[q].req.vID
         /\ calls[p].req.targetPath # calls[q].req.targetPath
         /\ StagedAndExecuted(p) /\ StagedAndExecuted(q)
         /\ OnlyCallsAt(p, q))
            => /\ Succeeded(p) /\ Succeeded(q)
               /\ Execs(p) = 1 /\ Execs(q) = 1
               /\ GrantOf(p) = RequestAccess(calls[p].req)
               /\ GrantOf(q) = RequestAccess(calls[q].req)
               /\ Grants(volumes[calls[p].req.vID]) =
                      {calls[p].req.targetPath, calls[q].req.targetPath}

\* two publishes of one volume at different target paths have both written
\* their grant and both grants are there
C16_Witness ==
    \E p \in Procs, q \in Procs :
        /\ p < q /\ WellFormed(p) /\ WellFormed(q)
        /\ calls[p].req.vID = calls[q].req.vID
        /\ calls[p].req.targetPath # calls[q].req.targetPath
        /\ Succeeded(p) /\ Succeeded(q) /\ calls[p].wrote /\ calls[q].wrote
        /\ GrantOf(p) = RequestAccess(calls[p].req)
        /\ GrantOf(q) = RequestAccess(calls[q].req)
        /\ calls[p].req.ro

\* call p takes a step
Steps(p) == calls'[p] # calls[p]

\* the step returns status code to the caller of p
Returns(p, code) == calls'[p].pc = "done" /\ calls'[p].result.code = code

\* the request of p asks for exactly one access type
OneAccessType(r) == ~r.vCap.isNil /\ (GetBlock(r.vCap) # GetMount(r.vCap))

\* C17: the status of a publish is that of the first failing check in the
\* order empty volume ID (InvalidArgument), unknown volume (NotFound), staging
\* path mismatch (FailedPrecondition), grant at the target path (success when
\* the parameters match, else AlreadyExists), capability absent, both or
\* neither (InvalidArgument), access type not permitted (InvalidArgument),
\* Executor failure; a later defect never changes the status of an earlier one.
C17_FirstFailingCheck ==
    [][\A p \in Procs :
          LET r == calls'[p].req
              known == r.vID \in DOMAIN volumes
              vol == volumes[r.vID]
          IN /\ (calls[p].pc = "idle" /\ Steps(p)) =>
                    IF r.vID = "" THEN Returns(p, "InvalidArgument")
                    ELSE IF ~known THEN Returns(p, "NotFound")
                    ELSE IF vol.StagingPath # r.stagingPath THEN Returns(p, "FailedPrecondition")
                    ELSE calls'[p].pc = "target"
             /\ (calls[p].pc = "target" /\ Steps(p)) =>
                    IF vol.TargetPaths[r.targetPath] # NoAccess
                    THEN IF vol.TargetPaths[r.targetPath] = RequestAccess(r)
                         THEN Returns(p, "OK") ELSE Returns(p, "AlreadyExists")
                    ELSE IF ~OneAccessType(r) THEN Returns(p, "InvalidArgument")
                    ELSE calls'[p].pc = "publish"
             /\ (calls[p].pc = "publish" /\ Steps(p)) =>
                    IF (GetBlock(r.vCap) /\ ~vol.Block) \/ (GetMount(r.vCap) /\ ~vol.Mount)
                    THEN Returns(p, "InvalidArgument") /\ calls'[p].err = NilErr
                    ELSE IF calls'[p].err # NilErr
                    THEN Returns(p, IF calls'[p].err.kind = "status" THEN calls'[p].err.code
                                    ELSE "Internal")
                    ELSE Returns(p, "OK")]_vars

\* a request with an empty staging path for a target path that holds a grant
\* with other parameters was answered FailedPrecondition
C17_Witness ==
    \E p \in Procs, q \in Procs :
        /\ p < q /\ Succeeded(p) /\ calls[p].wrote
        /\ calls[q].req.vID = calls[p].req.vID
        /\ calls[q].req.targetPath = calls[p].req.targetPath
        /\ volumes[calls[q].req.vID].StagingPath # calls[q].req.stagingPath
        /\ GrantOf(q) # NoAccess /\ GrantOf(q) # RequestAccess(calls[q].req)
        /\ Done(q) /\ calls[q].result.code = "FailedPrecondition"

\* C18: no call invokes the Executor more than once or invokes both Bind and
\* Mount; the step that returns from the Bind/Mount part of the handler
\* without an access rejection has invoked Bind alone for a block request
\* and Mount alone for a mount request; and a step that returns from a
\* validation check or from the idempotent short-circuit has invoked neither.
C18_AtMostOneExecutorCall ==
    /\ [](\A p \in Procs :
            /\ calls[p].binds + calls[p].mounts <= 1
            /\ ~Done(p) => Execs(p) = 0)
    /\ [][\A p \in Procs :
            LET r == calls[p].req
                denied == \/ GetBlock(r.vCap) /\ ~volumes[r.vID].Block
                          \/ GetMount(r.vCap) /\ ~volumes[r.vID].Mount
            IN /\ (calls[p].pc \in {"idle", "target"} /\ Steps(p)) => Execs(p)' = 0
               /\ (calls[p].pc = "publish" /\ Steps(p) /\ denied)
                     => Returns(p, "InvalidArgument") /\ Execs(p)' = 0
               /\ (calls[p].pc = "publish" /\ Steps(p) /\ ~denied)
                     => /\ calls'[p].binds = (IF GetBlock(r.vCap) THEN 1 ELSE 0)
                        /\ calls'[p].mounts = (IF GetMount(r.vCap) THEN 1 ELSE 0)
                        /\ Execs(p)' = 1]_vars

\* a block publish that invoked Bind alone, a mount publish that invoked
\* Mount alone
C18_Witness ==
    \E p \in Procs, q \in Procs :
        /\ Succeeded(p) /\ calls[p].binds = 1 /\ calls[p].mounts = 0
        /\ GrantOf(p).accessMode = "block"
        /\ Succeeded(q) /\ calls[q].binds = 0 /\ calls[q].mounts = 1
        /\ GrantOf(q).accessMode = "mount"

\* the status code a step of a call returns, as a function of the call's
\* position, its request, the record of the request's own volume (when the
\* Registry has one) and the Executor's answer; "none" when the call goes on
CodeOn(pc, r, known, vol, err) ==
    IF pc = "idle"
    THEN IF r.vID = "" THEN "InvalidArgument"
         ELSE IF ~known THEN "NotFound"
         ELSE IF vol.StagingPath # r.stagingPath THEN "FailedPrecondition"
         ELSE "none"
    ELSE IF pc = "target"
    THEN IF vol.TargetPaths[r.targetPath] # NoAccess
         THEN IF vol.TargetPaths[r.targetPath] = RequestAccess(r) THEN "OK" ELSE "AlreadyExists"
         ELSE IF ~OneAccessType(r) THEN "InvalidArgument"
         ELSE "none"
    ELSE IF (GetBlock(r.vCap) /\ ~vol.Block) \/ (GetMount(r.vCap) /\ ~vol.Mount)
         THEN "InvalidArgument"
         ELSE IF err = NilErr THEN "OK"
         ELSE IF err.kind = "status" THEN err.code
         ELSE "Internal"

\* C19: a step of a publish of volume A, whatever it returns, leaves the
\* record (StagingPath, grants, access flags) of every other volume B as it
\* was, and what it returns is determined by the request, A's record and the
\* Executor's answer alone, whatever B's record is and whatever calls run for B.
C19_OtherVolumesUntouched ==
    [][\A p \in Procs :
          Steps(p) =>
              LET r == calls'[p].req
                  known == r.vID \in DOMAIN volumes
                  vol == IF known THEN volumes[r.vID] ELSE NewVolume(FALSE, FALSE)
              IN /\ \A B \in VolumeIDs \ {r.vID} : volumes'[B] = volumes[B]
                 /\ calls'[p].result.code = CodeOn(calls[p].pc, r, known, vol, calls'[p].err)
                 /\ \A e \in executed' \ executed : e.vID = r.vID]_vars

\* a publish of a volume that is not staged was rejected although another
\* volume, with a grant of its own, is staged at the request's staging path
C19_Witness ==
    \E p \in Procs, q \in Procs :
        /\ KnownVolume(p) /\ KnownVolume(q)
        /\ calls[p].req.vID # calls[q].req.vID
        /\ Succeeded(q) /\ calls[q].wrote /\ GrantOf(q) # NoAccess
        /\ volumes[calls[q].req.vID].StagingPath = calls[p].req.stagingPath
        /\ calls[p].req.stagingPath # ""
        /\ volumes[calls[p].req.vID].StagingPath = ""
        /\ Grants(volumes[calls[p].req.vID]) = {}
        /\ Done(p) /\ calls[p].result.code = "FailedPrecondition"

====
